---- MODULE Spec2Model ----
(***************************************************************************)
(* Lenstra's elliptic curve factorisation with Suyama's parametrisation,   *)
(* as implemented in src/src/ecm.rs and src/src/point.rs: Montgomery XZ    *)
(* point arithmetic, the per-curve two stage search ecm_one_factor, and    *)
(* the driver ecm_with_params (trial division, then the ECM loop).         *)
(*                                                                         *)
(* rug::Integer is an arbitrary precision integer whose '%' is the         *)
(* truncated remainder (the sign follows the dividend).  Products that     *)
(* would leave the range of 32-bit integers are reduced factor by factor     *)
(* with MulRem, which yields the same truncated remainder.                 *)
(*                                                                         *)
(* An intermediate value v that the code computes once and then uses       *)
(* several times is bound once, as  CHOOSE e \in {F(x) : x \in {v}} : TRUE,  *)
(* which is F(v).                                                          *)
(***************************************************************************)
EXTENDS Integers, Sequences, FiniteSets, TLC

\* ------------------------------------------------------------------ bounds
\* Largest input N of the driver (inputs are -MaxNeg .. MaxN).
MaxN == 125
\* Smallest input N of the driver is -MaxNeg.
MaxNeg == 5
\* Number of primes of the trial division (Primes::all().take(100_000)).
TrialCount == 2
\* Largest max_curve given to the driver.
MaxCurveBound == 1
\* Cap of one multiplicity: only inputs N <= 0 reach it.
MaxMult == 8
\* Largest input N of the driver in the specification with fairness.
MaxFairN == 78
\* Largest scalar given to mont_ladder in the ladder specification.
MaxK == 17
\* Largest multiple m of the test point used as the ladder's base point.
MaxM == 3
\* Largest decimal length of N in the bound selection specification.
MaxDigits == 71

\* ------------------------------------------------- rug::Integer operations
Abs(a) == IF a >= 0 THEN a ELSE -a

\* a % n of rug::Integer: truncated remainder, the sign follows the dividend.
Rem(a, n) ==
    CHOOSE e \in {IF x >= 0 THEN x % Abs(n) ELSE -((-x) % Abs(n)) : x \in {a}} : TRUE

\* (a * b) % n, reduced factor by factor.
MulRem(a, b, n) == Rem(Rem(a, n) * Rem(b, n), n)

\* a / b for an exact division (n /= &factor after is_divisible).
ExactDiv(a, b) == IF b > 0 THEN a \div b ELSE (-a) \div (-b)

\* n.is_divisible(&d): d = 0 divides only 0.
IsDivisible(a, d) == IF d = 0 THEN a = 0 ELSE Abs(a) % Abs(d) = 0

RECURSIVE GcdNat(_, _)
GcdNat(a, b) ==
    IF b = 0 THEN a ELSE CHOOSE e \in {GcdNat(b, m) : m \in {a % b}} : TRUE

\* a.gcd(&n): the non-negative greatest common divisor, gcd(0, n) = |n|.
Gcd(a, b) == CHOOSE e \in {GcdNat(x, y) : x \in {Abs(a)}, y \in {Abs(b)}} : TRUE

\* a.invert(&n) is Ok exactly when a is coprime to n.
InvertOk(a, n) == Gcd(a, n) = 1

\* The value of a.invert(&n).unwrap(): the inverse in [0, n).
Invert(a, n) ==
    CHOOSE e \in {(CHOOSE x \in 0..(n - 1) : (c * x) % n = 1 % n) : c \in {a % n}} : TRUE

\* n.is_probably_prime(reps) != IsPrime::No; GMP tests |n|.
IsPrime(n) ==
    \E m \in {Abs(n)} : m >= 2 /\ \A j \in 2..m : (j * j <= m) => (m % j # 0)

\* Primes::all(): the ascending stream of primes; the prime after p.
RECURSIVE NextPrime(_)
NextPrime(p) ==
    CHOOSE e \in {IF IsPrime(c) THEN c ELSE NextPrime(c) : c \in {p + 1}} : TRUE

\* The first prime that is >= b (Primes::all().skip_while(|&q| q < b)).
FirstPrimeFrom(b) == IF IsPrime(b) THEN b ELSE NextPrime(b)

\* The i-th prime of Primes::all(), i = 1, 2, ...
RECURSIVE PrimeAt(_)
PrimeAt(i) ==
    IF i = 1 THEN 2
    ELSE CHOOSE e \in {NextPrime(p) : p \in {PrimeAt(i - 1)}} : TRUE

\* b1.ilog(p): the largest e with p^e <= b1.
RECURSIVE ILog(_, _)
ILog(b, p) == IF b < p THEN 0 ELSE 1 + ILog(b \div p, p)

RECURSIVE Pow(_, _)
Pow(a, e) == IF e = 0 THEN 1 ELSE a * Pow(a, e - 1)

\* (b2 as f64).sqrt() as usize
ISqrt(b) == CHOOSE r \in 0..b : r * r <= b /\ (r + 1) * (r + 1) > b

\* ------------------------------------------------------------ point.rs
Point(x, z, a24, modulus) ==
    [x_cord |-> x, z_cord |-> z, a_24 |-> a24, modulus |-> modulus]

\* Point::default(): every field is Integer::default() = 0.
PointDefault == Point(0, 0, 0, 0)

\* self.add(q, diff)
add(self, q, diff) ==
    CHOOSE e \in {
        LET u    == (a.x_cord - a.z_cord) * (b.x_cord + b.z_cord)
            v    == (a.x_cord + a.z_cord) * (b.x_cord - b.z_cord)
            addv == u + v
            subt == u - v
            x    == MulRem(c.z_cord, MulRem(addv, addv, a.modulus), a.modulus)
            z    == MulRem(c.x_cord, MulRem(subt, subt, a.modulus), a.modulus)
        IN  Point(x, z, a.a_24, a.modulus)
        : a \in {self}, b \in {q}, c \in {diff}} : TRUE

\* self.double()
double(self) ==
    CHOOSE e \in {
        LET u    == (a.x_cord + a.z_cord) * (a.x_cord + a.z_cord)
            v    == (a.x_cord - a.z_cord) * (a.x_cord - a.z_cord)
            diff == u - v
            x    == MulRem(u, v, a.modulus)
            z    == MulRem(v + a.a_24 * diff, diff, a.modulus)
        IN  Point(x, z, a.a_24, a.modulus)
        : a \in {self}} : TRUE

\* impl PartialEq for Point: equal a_24 and modulus, and equal X/Z; the unwrap
\* of the inversions needs both z_cord coprime to the modulus.
PointEq(self, other) ==
    /\ self.a_24 = other.a_24 /\ self.modulus = other.modulus
    /\ Rem(Invert(self.z_cord, self.modulus) * self.x_cord, self.modulus)
         = Rem(Invert(other.z_cord, self.modulus) * other.x_cord, self.modulus)

\* format!("{:b}", k): the binary digits of k >= 0, most significant first.
RECURSIVE BinaryString(_)
BinaryString(k) ==
    IF k < 2 THEN <<k>> ELSE Append(BinaryString(k \div 2), k % 2)

\* Mutant of LadderStep: on the digit 1, r = q.double() in place of r.double().
LadderStepDoubleQ(st, self) ==
    IF Head(st.bits) = 1
    THEN [q |-> add(st.r, st.q, self), r |-> double(st.q), bits |-> Tail(st.bits)]
    ELSE [q |-> double(st.q), r |-> add(st.q, st.r, self), bits |-> Tail(st.bits)]

\* One iteration of 'for i in format!("{:b}", k)[1..].chars()': st holds q, r
\* and the digits not yet read.
LadderStep(st, self) ==
    IF Head(st.bits) = 1
    THEN [q |-> add(st.r, st.q, self), r |-> double(st.r), bits |-> Tail(st.bits)]
    ELSE [q |-> double(st.q), r |-> add(st.q, st.r, self), bits |-> Tail(st.bits)]

RECURSIVE LadderLoop(_, _)
LadderLoop(st, self) ==
    IF st.bits = <<>> THEN st
    ELSE CHOOSE e \in {LadderLoop(nx, self) : nx \in {LadderStep(st, self)}} : TRUE

\* let mut q = self.clone(); let mut r = self.double(); before the loop.
LadderStart(self, bits) == [q |-> self, r |-> double(self), bits |-> Tail(bits)]

\* self.mont_ladder(k) on the binary digits of k.
mont_ladder_bits(self, bits) ==
    CHOOSE e \in {LadderLoop(LadderStart(p, bits), p).q : p \in {self}} : TRUE

\* self.mont_ladder(k)
mont_ladder(self, k) == mont_ladder_bits(self, BinaryString(k))

\* ------------------------------------------------- ecm.rs: ecm_one_factor
\* k *= p.pow(b1.ilog(p)) over the primes p <= b1, from the prime p on.
RECURSIVE StageKFrom(_, _)
StageKFrom(p, b) ==
    IF p > b THEN 1
    ELSE CHOOSE e \in {Pow(p, ILog(b, p)) * StageKFrom(c, b) :
                        c \in {NextPrime(p)}} : TRUE

\* The Stage 1 exponent k.
StageK(b) == StageKFrom(2, b)

\* base.pow_mod(&Integer::from(3), n): the non-negative residue of base^3.
PowMod3(base, m) ==
    LET e == base % m IN (((e * e) % m) * e) % m

\* Suyama's parametrisation of the curve of sigma modulo m.
SuyamaU(sg, m) == Rem(sg * sg - 5, m)
SuyamaV(sg, m) == Rem(4 * sg, m)
SuyamaU3(sg, m) == Rem(SuyamaU(sg, m) * SuyamaU(sg, m) * SuyamaU(sg, m), m)
\* The value 4 * u_3 * v whose inverse is taken.
SuyamaDen(sg, m) == 4 * SuyamaU3(sg, m) * SuyamaV(sg, m)

SuyamaC(sg, m) ==
    LET u == SuyamaU(sg, m)
        v == SuyamaV(sg, m)
    IN  Rem(PowMod3(v - u, m) * (4 * u + v) * Invert(SuyamaDen(sg, m), m) - 2, m)

SuyamaA24(sg, m) == Rem((SuyamaC(sg, m) + 2) * Invert(4, m), m)

\* Point::new(u_3, v.pow(3) % n, a24, n.clone())
SuyamaPoint(sg, m) ==
    LET v == SuyamaV(sg, m)
    IN  Point(SuyamaU3(sg, m), Rem(v * v * v, m), SuyamaA24(sg, m), m)

\* s[1] = q.double(); s[2] = s[1].double(); s[i] = s[i-1].add(&s[1], &s[i-2]),
\* written into the table tab that the previous curves left.
RECURSIVE FillS(_, _, _)
FillS(tab, i, d) ==
    IF i > d THEN tab
    ELSE CHOOSE e \in {FillS(nx, i + 1, d) :
             nx \in {[tab EXCEPT ![i] = add(tab[i - 1], tab[1], tab[i - 2])]}} : TRUE

STable(tab, q, d) ==
    LET s1 == double(q)
        s2 == double(s1)
    IN  FillS([tab EXCEPT ![1] = s1, ![2] = s2], 3, d)

\* beta[i] = s[i].x_cord * s[i].z_cord % n for i = 1..d; beta[0] is untouched.
BetaTable(old, tab, d, m) ==
    [i \in DOMAIN old |->
        IF i >= 1 /\ i <= d THEN Rem(tab[i].x_cord * tab[i].z_cord, m) ELSE old[i]]

\* The primes that primes.by_ref().take_while(|&q| q <= hi) yields from the
\* cursor c on.
RECURSIVE WindowPrimes(_, _)
WindowPrimes(c, hi) ==
    IF c > hi THEN <<>>
    ELSE CHOOSE e \in {<<c>> \o WindowPrimes(p, hi) : p \in {NextPrime(c)}} : TRUE

\* The cursor after that take_while: the first prime above hi was taken from
\* the iterator to be tested and is not put back.
CursorAfter(c, hi) ==
    NextPrime(IF c > hi THEN c ELSE FirstPrimeFrom(hi + 1))

\* g = (g * f) % n over the primes qs of the window at offset w.
RECURSIVE FoldG(_, _, _, _, _, _, _, _)
FoldG(acc, qs, w, rp, sd, alpha, bt, m) ==
    IF qs = <<>> THEN acc
    ELSE LET delta == (Head(qs) - w) \div 2
             f == (rp.x_cord - sd.x_cord) * (rp.z_cord + sd.z_cord)
                  - alpha + bt[delta]
         IN  CHOOSE e \in {FoldG(a, Tail(qs), w, rp, sd, alpha, bt, m) :
                             a \in {Rem(acc * f, m)}} : TRUE

\* Width of usize.
UsizeBits == 64

\* The binary digits of the usize 2^UsizeBits - c, for 1 <= c (the wrapped
\* result of a subtraction that underflows by c).
WrappedBinaryString(c) ==
    LET low == BinaryString(c - 1)
        pad == UsizeBits - Len(low)
    IN  [i \in 1..UsizeBits |-> IF i <= pad THEN 1 ELSE 1 - low[i - pad]]

\* ------------------------------------------------------------------ state
VARIABLES
    pc,         \* position of the driver / of ecm_one_factor
    N0,         \* the argument n of ecm_with_params
    b1, b2,     \* the arguments b1, b2
    max_curve,  \* the argument max_curve
    n,          \* the driver's residual (let mut n)
    factors,    \* the driver's HashMap factors: key |-> multiplicity
    pi,         \* index of the current prime of the trial division
    res,        \* what the last call of ecm_one_factor returned
    factor,     \* the driver's factor (the result after unwrap_or)
    n_call,     \* residual at the start of the current loop iteration (&n)
    curve,      \* ecm_one_factor's curve counter
    draws,      \* number of sigma drawn from rgen in the current call
    k,          \* the Stage 1 exponent of the current call
    s, beta,    \* the Stage 2 tables (declared once per call)
    sigma,      \* sigma of the current curve
    Q,          \* Stage 1 output q of the current curve
    g,          \* Stage 2 accumulator
    t, r,       \* Stage 2 running points
    rr,         \* offset of the next Stage 2 window
    cursor,     \* the next prime the iterator primes will yield
    win,        \* the last Stage 2 window: its offset and the primes used
    lpc, lm, lself, lk, lbits, lj, lq, lr,   \* one call of mont_ladder
    digits, eb1, eb2                     \* one call of ecm: bound selection

drv  == <<N0, b1, b2, max_curve, n, factors, pi, factor, n_call>>
call == <<res, curve, draws, k, s, beta>>
crv  == <<sigma, Q, g, t, r, rr, cursor, win>>
lad  == <<lpc, lm, lself, lk, lbits, lj, lq, lr>>
sel  == <<digits, eb1, eb2>>
vars == <<pc, drv, call, crv, lad, sel>>

\* The (b1, b2) the driver is called with: Stage 2 of one window, of two
\* windows, a start b - 2d below zero, an odd b1, an odd b2.
BoundPairs == {<<6, 8>>, <<8, 14>>, <<4, 4>>, <<5, 8>>, <<6, 9>>}

NoRes == [kind |-> "none", val |-> 0]
Ok(v) == [kind |-> "Ok", val |-> v]
Err(e) == [kind |-> e, val |-> 0]

NoMap == <<>>
\* Mutant of Record: factors.insert(key, 1), which forgets the earlier passes.
RecordInsert(m, key) == (key :> 1) @@ m

\* Mutant of Record: *factors.entry(key).or_insert(1) += 1.
RecordFromOne(m, key) ==
    IF key \in DOMAIN m THEN [m EXCEPT ![key] = @ + 1] ELSE (key :> 2) @@ m

\* *factors.entry(key).or_insert(0) += 1
Record(m, key) ==
    IF key \in DOMAIN m THEN [m EXCEPT ![key] = @ + 1] ELSE (key :> 1) @@ m

IdleLadder ==
    /\ lpc = "idle" /\ lm = 0 /\ lself = PointDefault /\ lk = 0 /\ lbits = <<>>
    /\ lj = 0 /\ lq = PointDefault /\ lr = PointDefault
IdleSelect == digits = 0 /\ eb1 = <<0, 0>> /\ eb2 = <<0, 0>>
IdleCurve ==
    /\ sigma = 0 /\ Q = PointDefault /\ g = 0 /\ t = PointDefault
    /\ r = PointDefault /\ rr = 0 /\ cursor = 0 /\ win = [rr |-> 0, primes |-> <<>>]
\* The locals of one curve go out of scope.
DropCurve ==
    /\ sigma' = 0 /\ Q' = PointDefault /\ g' = 0 /\ t' = PointDefault
    /\ r' = PointDefault /\ rr' = 0 /\ cursor' = 0 /\ win' = [rr |-> 0, primes |-> <<>>]
IdleCall ==
    /\ res = NoRes /\ curve = 0 /\ draws = 0 /\ k = 0 /\ s = <<>> /\ beta = <<>>

\* ecm_with_params is entered: let mut factors = HashMap::new(); n = n.clone()
Init ==
    /\ pc = "trial"
    /\ N0 \in (-MaxNeg)..MaxN
    /\ \E bp \in BoundPairs : b1 = bp[1] /\ b2 = bp[2]
    /\ max_curve \in 0..MaxCurveBound
    /\ n = N0
    /\ factors = NoMap
    /\ pi = 1
    /\ factor = 0
    /\ n_call = 0
    /\ IdleCall /\ IdleCurve /\ IdleLadder /\ IdleSelect

\* --------------------------------------------- ecm_with_params: the driver
\* Trial division, one pass of 'while n.is_divisible(&prime)'.
TrialDivide ==
    /\ pc = "trial" /\ pi <= TrialCount
    /\ IsDivisible(n, PrimeAt(pi))
    /\ (PrimeAt(pi) \in DOMAIN factors) => factors[PrimeAt(pi)] < MaxMult
    /\ n' = ExactDiv(n, PrimeAt(pi))
    /\ factors' = Record(factors, PrimeAt(pi))
    /\ UNCHANGED <<pc, N0, b1, b2, max_curve, pi, factor, n_call, call, crv, lad, sel>>

\* Trial division: the prime does not (or no longer) divide n.
TrialNext ==
    /\ pc = "trial" /\ pi <= TrialCount
    /\ ~IsDivisible(n, PrimeAt(pi))
    /\ pi' = pi + 1
    /\ UNCHANGED <<pc, N0, b1, b2, max_curve, n, factors, factor, n_call, call, crv, lad, sel>>

\* The primes are exhausted; the random state is seeded.
TrialDone ==
    /\ pc = "trial" /\ pi > TrialCount
    /\ pc' = "loop"
    /\ UNCHANGED <<drv, call, crv, lad, sel>>

\* 'while n != 1' is left: Ok(factors).
LoopExit ==
    /\ pc = "loop" /\ n = 1
    /\ pc' = "done"
    /\ UNCHANGED <<drv, call, crv, lad, sel>>

\* ecm_one_factor is called with an odd bound.
OneFactorBoundsNotEven ==
    /\ pc = "loop" /\ n # 1
    /\ (b1 % 2 # 0 \/ b2 % 2 # 0)
    /\ res' = Err("BoundsNotEven")
    /\ n_call' = n
    /\ curve' = 0 /\ draws' = 0 /\ k' = 0 /\ s' = <<>> /\ beta' = <<>>
    /\ pc' = "returned"
    /\ UNCHANGED <<N0, b1, b2, max_curve, n, factors, pi, factor, crv, lad, sel>>

\* ecm_one_factor is called with even bounds on a (probable) prime.
OneFactorNumberIsPrime ==
    /\ pc = "loop" /\ n # 1
    /\ ~(b1 % 2 # 0 \/ b2 % 2 # 0)
    /\ IsPrime(n)
    /\ res' = Err("NumberIsPrime")
    /\ n_call' = n
    /\ curve' = 0 /\ draws' = 0 /\ k' = 0 /\ s' = <<>> /\ beta' = <<>>
    /\ pc' = "returned"
    /\ UNCHANGED <<N0, b1, b2, max_curve, n, factors, pi, factor, crv, lad, sel>>

\* ecm_one_factor is called with even bounds on a composite: curve = 0, d,
\* the tables of d + 1 default entries, and k.
OneFactorSetup ==
    /\ pc = "loop" /\ n # 1
    /\ ~(b1 % 2 # 0 \/ b2 % 2 # 0)
    /\ ~IsPrime(n)
    /\ res' = NoRes
    /\ n_call' = n
    /\ curve' = 0 /\ draws' = 0
    /\ k' = StageK(b1)
    /\ s' = [i \in 0..ISqrt(b2) |-> PointDefault]
    /\ beta' = [i \in 0..ISqrt(b2) |-> 0]
    /\ pc' = "curves"
    /\ UNCHANGED <<N0, b1, b2, max_curve, n, factors, pi, factor, crv, lad, sel>>

\* Stage 1 of the curve of sigma sg: q.mont_ladder(&k) of the Suyama point.
Stage1Q(sg, m, kk) == mont_ladder(SuyamaPoint(sg, m), kk)

\* 'while curve <= max_curve' is left: Err(ECMFailed).
CurvesExhausted ==
    /\ pc = "curves" /\ ~(curve <= max_curve)
    /\ res' = Err("ECMFailed")
    /\ pc' = "returned"
    /\ UNCHANGED <<drv, curve, draws, k, s, beta, crv, lad, sel>>

\* (n - Integer::from(1)).random_below(rgen) panics on a bound <= 0.
RandomBelowPanic ==
    /\ pc = "curves" /\ curve <= max_curve
    /\ n - 1 <= 0
    /\ curve' = curve + 1
    /\ pc' = "panic"
    /\ UNCHANGED <<drv, res, draws, k, s, beta, crv, lad, sel>>

\* A curve starts: curve += 1 and sigma is drawn from [0, n - 1).
DrawSigma ==
    /\ pc = "curves" /\ curve <= max_curve
    /\ n - 1 > 0
    /\ curve' = curve + 1 /\ draws' = draws + 1
    /\ sigma' \in 0..(n - 2)
    /\ pc' = "suyama"
    /\ UNCHANGED <<drv, res, k, s, beta, Q, g, t, r, rr, cursor, win, lad, sel>>

\* 4 * u_3 * v has no inverse: its gcd with n is returned.
InversionHit ==
    /\ pc = "suyama"
    /\ ~InvertOk(SuyamaDen(sigma, n), n)
    /\ res' = Ok(Gcd(SuyamaDen(sigma, n), n))
    /\ pc' = "returned"
    /\ UNCHANGED <<drv, curve, draws, k, s, beta, crv, lad, sel>>

\* 4 * u_3 * v has an inverse (and so has 4): the curve, its point, Stage 1
\* and g = gcd(q.z_cord, n).
Stage1 ==
    /\ pc = "suyama"
    /\ InvertOk(SuyamaDen(sigma, n), n)
    /\ \E q1 \in {Stage1Q(sigma, n, k)} : Q' = q1 /\ g' = Gcd(q1.z_cord, n)
    /\ pc' = "stage1"
    /\ UNCHANGED <<drv, call, sigma, t, r, rr, cursor, win, lad, sel>>

\* Stage 1 found a factor.
Stage1Factor ==
    /\ pc = "stage1"
    /\ g # n /\ g # 1
    /\ res' = Ok(g)
    /\ pc' = "returned"
    /\ UNCHANGED <<drv, curve, draws, k, s, beta, crv, lad, sel>>

\* Stage 1 ended with q.z = 0 mod n: continue with the next curve.
Stage1Overshoot ==
    /\ pc = "stage1"
    /\ ~(g # n /\ g # 1) /\ g = n
    /\ DropCurve
    /\ pc' = "curves"
    /\ UNCHANGED <<drv, call, lad, sel>>

\* Stage 1 ended with gcd 1: the tables s and beta are filled, and g, t, r and
\* the prime cursor are set for the first window.  Where b - two_d
\* underflows, the build without overflow checks wraps it.
Stage2Setup ==
    /\ pc = "stage1"
    /\ ~(g # n /\ g # 1) /\ g # n
    /\ ISqrt(b2) >= 2 /\ b1 >= 1
    /\ \E d \in {ISqrt(b2)}, b \in {b1 - 1} : \E st \in {STable(s, Q, d)} :
           /\ s' = st
           /\ beta' = BetaTable(beta, st, d, n)
           /\ g' = 1
           /\ t' = IF b - 2 * d >= 0
                   THEN mont_ladder(Q, b - 2 * d)
                   ELSE mont_ladder_bits(Q, WrappedBinaryString(2 * d - b))
           /\ r' = mont_ladder(Q, b)
           /\ cursor' = FirstPrimeFrom(b)
           /\ rr' = b
    /\ pc' = "stage2"
    /\ UNCHANGED <<drv, res, curve, draws, k, sigma, Q, win, lad, sel>>

\* Stage 1 ended with gcd 1 and Stage 2 panics: s[2] is out of bounds for
\* d < 2, and b - two_d underflows in a build with overflow checks.
Stage2SetupPanic ==
    /\ pc = "stage1"
    /\ ~(g # n /\ g # 1) /\ g # n
    /\ (ISqrt(b2) < 2 \/ b1 < 1 \/ b1 - 1 - 2 * ISqrt(b2) < 0)
    /\ pc' = "panic"
    /\ UNCHANGED <<drv, call, crv, lad, sel>>

\* One window of Stage 2: 'for rr in (b..b2).step_by(two_d)'.
Stage2Window ==
    /\ pc = "stage2" /\ rr < b2
    /\ \E d \in {ISqrt(b2)}, alpha \in {Rem(r.x_cord * r.z_cord, n)} :
       \E qs \in {WindowPrimes(cursor, rr + 2 * d)} :
           /\ g' = FoldG(g, qs, rr, r, s[d], alpha, beta, n)
           /\ cursor' = CursorAfter(cursor, rr + 2 * d)
           /\ win' = [rr |-> rr, primes |-> qs]
           /\ t' = r
           /\ r' = add(t, s[d], r)
           /\ rr' = rr + 2 * d
    /\ UNCHANGED <<pc, drv, call, sigma, Q, lad, sel>>

\* Stage 2 ends with a factor.
Stage2Factor ==
    /\ pc = "stage2" /\ ~(rr < b2)
    /\ Gcd(g, n) # n /\ Gcd(g, n) # 1
    /\ g' = Gcd(g, n)
    /\ res' = Ok(Gcd(g, n))
    /\ pc' = "returned"
    /\ UNCHANGED <<drv, curve, draws, k, s, beta, sigma, Q, t, r, rr, cursor, win, lad, sel>>

\* Stage 2 ends without a factor; the next curve.
Stage2Miss ==
    /\ pc = "stage2" /\ ~(rr < b2)
    /\ ~(Gcd(g, n) # n /\ Gcd(g, n) # 1)
    /\ DropCurve
    /\ pc' = "curves"
    /\ UNCHANGED <<drv, call, lad, sel>>

\* Mutant of UnwrapOr: .unwrap_or(Integer::from(1)).
UnwrapOrOne ==
    /\ pc = "returned"
    /\ factor' = IF res.kind = "Ok" THEN res.val ELSE 1
    /\ curve' = 0 /\ k' = 0 /\ s' = <<>> /\ beta' = <<>>
    /\ DropCurve
    /\ pc' = "divide"
    /\ UNCHANGED <<N0, b1, b2, max_curve, n, factors, pi, n_call, res, draws, lad, sel>>

\* .unwrap_or(n.clone()) on the result of ecm_one_factor, whose locals are
\* gone.
UnwrapOr ==
    /\ pc = "returned"
    /\ factor' = IF res.kind = "Ok" THEN res.val ELSE n
    /\ curve' = 0 /\ k' = 0 /\ s' = <<>> /\ beta' = <<>>
    /\ DropCurve
    /\ pc' = "divide"
    /\ UNCHANGED <<N0, b1, b2, max_curve, n, factors, pi, n_call, res, draws, lad, sel>>

\* One pass of 'while n.is_divisible(&factor)'.
DivideOut ==
    /\ pc = "divide"
    /\ IsDivisible(n, factor)
    /\ (factor \in DOMAIN factors) => factors[factor] < MaxMult
    /\ n' = ExactDiv(n, factor)
    /\ factors' = Record(factors, factor)
    /\ UNCHANGED <<pc, N0, b1, b2, max_curve, pi, factor, n_call, call, crv, lad, sel>>

\* factor no longer divides n: back to 'while n != 1'.
DivideDone ==
    /\ pc = "divide"
    /\ ~IsDivisible(n, factor)
    /\ pc' = "loop"
    /\ UNCHANGED <<drv, call, crv, lad, sel>>

Next ==
    \/ TrialDivide \/ TrialNext \/ TrialDone \/ LoopExit
    \/ OneFactorBoundsNotEven \/ OneFactorNumberIsPrime \/ OneFactorSetup
    \/ CurvesExhausted \/ RandomBelowPanic \/ DrawSigma
    \/ InversionHit \/ Stage1 \/ Stage1Factor \/ Stage1Overshoot
    \/ Stage2Setup \/ Stage2SetupPanic \/ Stage2Window
    \/ Stage2Factor \/ Stage2Miss
    \/ UnwrapOr \/ DivideOut \/ DivideDone

Spec == Init /\ [][Next]_vars

\* The program is one sequential thread: it takes its next step whenever it
\* has one.
FairInit == Init /\ N0 <= MaxFairN
FairSpec == FairInit /\ [][Next]_vars /\ WF_vars(Next)

\* ------------------------------------------- point.rs: one call of mont_ladder
\* The curve and the point of tests::test_point: a = 10 modulo 101, and
\* a_24 = (a + 2) * 4^-1, not reduced.
TestModulus == 101
TestA == 10
TestX == 10
TestZ == 17
TestA24 == (TestA + 2) * Invert(4, TestModulus)
TestPoint == Point(TestX, TestZ, TestA24, TestModulus)
\* The point (0:1), which lies on every Montgomery curve and has order 2.
TorsionPoint == Point(0, 1, TestA24, TestModulus)

IdleDriver ==
    /\ N0 = 0 /\ b1 = 0 /\ b2 = 0 /\ max_curve = 0 /\ n = 0 /\ factors = NoMap
    /\ pi = 0 /\ factor = 0 /\ n_call = 0

\* mont_ladder(k) is called on self = m * P, for the test point P, or on the
\* point (0:1).
LadderInit ==
    /\ pc = "idle" /\ IdleDriver /\ IdleCall /\ IdleCurve /\ IdleSelect
    /\ lpc = "call"
    /\ lm \in 1..MaxM
    /\ lk \in 1..MaxK
    /\ lself \in {mont_ladder(TestPoint, lm), TorsionPoint}
    /\ lbits = <<>> /\ lj = 0 /\ lq = PointDefault /\ lr = PointDefault

\* let mut q = self.clone(); let mut r = self.double(); the digits of k after
\* the first are to be read.  lj is the value of the digits read so far.
LadderEnter ==
    /\ lpc = "call"
    /\ LET st == LadderStart(lself, BinaryString(lk))
       IN  lq' = st.q /\ lr' = st.r /\ lbits' = st.bits
    /\ lj' = 1
    /\ lpc' = "loop"
    /\ UNCHANGED <<pc, drv, call, crv, lm, lself, lk, sel>>

\* The loop reads the digit 1.
LadderBitOne ==
    /\ lpc = "loop" /\ lbits # <<>> /\ Head(lbits) = 1
    /\ LET st == LadderStep([q |-> lq, r |-> lr, bits |-> lbits], lself)
       IN  lq' = st.q /\ lr' = st.r /\ lbits' = st.bits
    /\ lj' = 2 * lj + 1
    /\ UNCHANGED <<pc, drv, call, crv, lpc, lm, lself, lk, sel>>

\* The loop reads the digit 0.
LadderBitZero ==
    /\ lpc = "loop" /\ lbits # <<>> /\ Head(lbits) = 0
    /\ LET st == LadderStep([q |-> lq, r |-> lr, bits |-> lbits], lself)
       IN  lq' = st.q /\ lr' = st.r /\ lbits' = st.bits
    /\ lj' = 2 * lj
    /\ UNCHANGED <<pc, drv, call, crv, lpc, lm, lself, lk, sel>>

\* The digits are exhausted: q is returned.
LadderReturn ==
    /\ lpc = "loop" /\ lbits = <<>>
    /\ lpc' = "done"
    /\ UNCHANGED <<pc, drv, call, crv, lm, lself, lk, lbits, lj, lq, lr, sel>>

LadderNext == LadderEnter \/ LadderBitOne \/ LadderBitZero \/ LadderReturn

LadderSpec == LadderInit /\ [][LadderNext]_vars

\* ------------------------------------------------ ecm.rs: ecm, bound selection
\* A usize above 32-bit integers is written <<hi, lo>> for
\* hi * BigBase + lo, with 0 <= lo < BigBase.
BigBase == 1000 * 1000
Big(v) == <<v \div BigBase, v % BigBase>>
BigEven(v) == v[2] % 2 = 0
BigLeq(v, w) == v[1] < w[1] \/ (v[1] = w[1] /\ v[2] <= w[2])

\* optimal_b1(digits)
optimal_b1(dg) ==
    CASE dg \in 1..15  -> Big(2000)
      [] dg \in 16..20 -> Big(11000)
      [] dg \in 21..25 -> Big(50000)
      [] dg \in 26..30 -> Big(250000)
      [] dg \in 31..35 -> Big(1000000)
      [] dg \in 36..40 -> Big(3000000)
      [] dg \in 41..45 -> Big(11000000)
      [] dg \in 46..50 -> Big(44000000)
      [] dg \in 51..55 -> Big(110000000)
      [] dg \in 56..60 -> Big(260000000)
      [] dg \in 61..65 -> Big(850000000)
      [] dg \in 66..70 -> <<2900, 0>>
      [] OTHER         -> <<2900, 0>>

\* The b2 that ecm passes on.
DefaultB2 == 100000

\* ecm(n) is called on an n whose decimal string has digits characters.
SelectInit ==
    /\ pc = "ecm" /\ IdleDriver /\ IdleCall /\ IdleCurve /\ IdleLadder
    /\ digits \in 1..MaxDigits
    /\ eb1 = <<0, 0>> /\ eb2 = <<0, 0>>

\* ecm calls ecm_with_params(n, optimal_b1(n.to_string().len()), 100000, ..).
EcmSelect ==
    /\ pc = "ecm"
    /\ eb1' = optimal_b1(digits)
    /\ eb2' = Big(DefaultB2)
    /\ pc' = "ecm_with_params"
    /\ UNCHANGED <<drv, call, crv, lad, digits>>

SelectNext == EcmSelect

SelectSpec == SelectInit /\ [][SelectNext]_vars

\* ================================================================ claims
\* The product of key^multiplicity over the entries of the mapping m.
RECURSIVE MapProduct(_)
MapProduct(m) ==
    IF DOMAIN m = {} THEN 1
    ELSE LET key == CHOOSE x \in DOMAIN m : TRUE
         IN  Pow(key, m[key]) * MapProduct([x \in DOMAIN m \ {key} |-> m[x]])

EvenBounds == b1 % 2 = 0 /\ b2 % 2 = 0

\* C1: for every N >= 2, at every state of the driver the residual times the
\* product of key^multiplicity over the mapping equals N, and the driver
\* returns only with residual 1, so the returned mapping multiplies back to N.
C1_ProductIsN ==
    N0 >= 2 =>
        /\ n * MapProduct(factors) = N0
        /\ (pc = "done" => n = 1 /\ MapProduct(factors) = N0)

\* C1 witness: 110 = 2 * 5 * 11 is returned as {2: 1, 5: 1, 11: 1}, the 2 from
\* the trial division and a factor from a curve.
C1_Witness ==
    /\ pc = "done" /\ N0 = 110 /\ res = Err("NumberIsPrime")
    /\ factors = [key \in {2, 5, 11} |-> 1]

\* C2: every key of the mapping that ecm_with_params returns for N >= 2 is
\* prime, whatever ecm_one_factor returned.
C2_KeysArePrime ==
    (N0 >= 2 /\ pc = "done") => \A key \in DOMAIN factors : IsPrime(key)

\* C3: every factor f that ecm_one_factor returns is a non-trivial divisor of
\* its argument n: f divides n and 1 < f < n.
C3_FactorNontrivial ==
    (pc = "returned" /\ res.kind = "Ok") =>
        /\ IsDivisible(n, res.val)
        /\ 1 < res.val /\ res.val < n

\* C4: for every prime N the driver returns exactly {N: 1}; no curve is
\* drawn; a prime above the trial primes is signalled as NumberIsPrime when
\* the bounds are even (as those of ecm are), a trial prime needs no call.
C4_PrimeInput ==
    (N0 >= 2 /\ IsPrime(N0)) =>
        /\ draws = 0
        /\ pc \notin {"curves", "suyama", "stage1", "stage2", "panic"}
        /\ (pc = "done" =>
              /\ factors = (N0 :> 1) /\ n = 1
              /\ (N0 <= PrimeAt(TrialCount) => res = NoRes)
              /\ (N0 > PrimeAt(TrialCount) /\ EvenBounds
                    => res = Err("NumberIsPrime")))

\* C4 witness: the prime 113, above the trial primes, with even bounds.
C4_Witness ==
    /\ pc = "done" /\ N0 = 113 /\ EvenBounds
    /\ res = Err("NumberIsPrime") /\ factors = (113 :> 1)

\* C5: BoundsNotEven is returned before any curve is drawn, and the driver
\* surfaces it: after that result no mapping is returned.
C5_BoundsNotEvenSurfaced ==
    res = Err("BoundsNotEven") => (draws = 0 /\ pc # "done")

\* C6: one call of ecm_one_factor draws sigma at most max_curve times, and
\* returns ECMFailed after exactly max_curve draws.
C6_AtMostMaxCurves ==
    /\ draws <= max_curve
    /\ (res = Err("ECMFailed") => draws = max_curve)

\* C7: for every N >= 2 the driver terminates: the factor divided out in an
\* iteration of the ECM loop is a divisor >= 2 of the residual, whatever
\* ecm_one_factor returned, so the iteration ends with a strictly smaller
\* residual >= 1, and the run ends; it ends with residual 1 and the mapping
\* unless the bounds make Stage 2 panic (sqrt(b2) < 2 or b1 - 1 < 2 * d).
C7_Terminates ==
    /\ []((N0 >= 2 /\ pc = "divide") =>
            (factor >= 2 /\ IsDivisible(n_call, factor)))
    /\ [][(N0 >= 2 /\ pc = "divide" /\ pc' = "loop") =>
            (1 <= n' /\ n' < n_call)]_vars
    /\ ((N0 >= 2) => <>(pc \in {"done", "panic"}))
    /\ ((N0 >= 2 /\ (~EvenBounds \/ (ISqrt(b2) >= 2 /\ b1 - 1 >= 2 * ISqrt(b2))))
          => <>(pc = "done" /\ n = 1))

\* C7 witness: an iteration that divided a factor out and left a residual
\* above 1 for the next iteration.
C7_Witness ==
    /\ pc = "loop" /\ N0 >= 2 /\ res.kind = "Ok"
    /\ 1 < n /\ n < n_call

\* C8: N = 1 yields the empty mapping without a call of the search; N <= 0
\* draws no curve and never yields a non-empty mapping.
C8_NonPositiveRejected ==
    /\ (N0 <= 1 => draws = 0)
    /\ ((N0 = 1 /\ pc = "done") => (factors = NoMap /\ res = NoRes))
    /\ (N0 <= 0 => ~(pc = "done" /\ factors # NoMap))

\* C9: the bounds ecm passes on are both even and B1 <= B2.
C9_DefaultBoundsOrdered ==
    pc = "ecm_with_params" =>
        /\ BigEven(eb1) /\ BigEven(eb2)
        /\ BigLeq(eb1, eb2)

\* ---- the group law of the curve, as the reference for the ladder
\* The Montgomery curve  B * y^2 = x^3 + A * x^2 + x  over the field of
\* TestModulus elements, in affine coordinates with the point at infinity;
\* B is chosen so that the test point has y = 1.
RefInv(a) == CHOOSE x \in 1..(TestModulus - 1) : (a * x) % TestModulus = 1
RefX0 == (TestX * RefInv(TestZ)) % TestModulus
RefB == (RefX0 * RefX0 * RefX0 + TestA * RefX0 * RefX0 + RefX0) % TestModulus
RefO == [inf |-> TRUE, x |-> 0, y |-> 0]
RefAffine(x, y) == [inf |-> FALSE, x |-> x, y |-> y]
RefP0 == RefAffine(RefX0, 1)
RefTorsion == RefAffine(0, 0)

\* The chord and tangent addition p1 + p2.
RefAdd(p1, p2) ==
    CHOOSE e \in {
        IF a.inf THEN b
        ELSE IF b.inf THEN a
        ELSE IF a.x = b.x /\ (a.y + b.y) % TestModulus = 0 THEN RefO
        ELSE LET lam == IF a.x = b.x
                        THEN ((3 * a.x * a.x + 2 * TestA * a.x + 1)
                                * RefInv((2 * RefB * a.y) % TestModulus))
                             % TestModulus
                        ELSE ((b.y - a.y) * RefInv((b.x - a.x) % TestModulus))
                             % TestModulus
                 x3  == (RefB * lam * lam - TestA - a.x - b.x) % TestModulus
                 y3  == (lam * (a.x - x3) - a.y) % TestModulus
             IN  RefAffine(x3, y3)
        : a \in {p1}, b \in {p2}} : TRUE

\* j * base by j - 1 additions of base.
RECURSIVE RefMul(_, _)
RefMul(base, j) ==
    IF j = 0 THEN RefO
    ELSE CHOOSE e \in {RefAdd(prev, base) : prev \in {RefMul(base, j - 1)}} : TRUE

\* The XZ point pt is the point ref of the curve: z = 0 (and x # 0) for the
\* point at infinity, x / z = ref.x otherwise.
Represents(pt, ref) ==
    LET x == pt.x_cord % TestModulus
        z == pt.z_cord % TestModulus
    IN  IF ref.inf THEN z = 0 /\ x # 0
        ELSE z # 0 /\ x = (ref.x * z) % TestModulus

\* The point of the curve that the ladder's base point lself is.
RefBase == IF lself = TorsionPoint THEN RefTorsion ELSE RefMul(RefP0, lm)

\* What C10 says of the states of one call self.mont_ladder(k), self = m * P:
\* with j the value of the digits read, Q = j * self and R = (j + 1) * self
\* (so R - Q = self, the diff every add of the ladder is given), and
\* Q = (m * j) * P; the call returns k * self; k = 1 returns self unchanged
\* and k = 2 returns self.double(); on P = (10:17) the scalars 5, 9 and 16
\* return points equal (PartialEq) to (49:90), (56:99) and (5:16).
LadderComputesMultiple ==
    /\ lpc \in {"loop", "done"} =>
          /\ Represents(lq, RefMul(RefBase, lj))
          /\ Represents(lr, RefMul(RefBase, lj + 1))
          /\ (lself # TorsionPoint => Represents(lq, RefMul(RefP0, lm * lj)))
    /\ lpc = "done" =>
          /\ lj = lk /\ lq = mont_ladder(lself, lk)
          /\ (lk = 1 => lq = lself)
          /\ (lk = 2 => lq = double(lself))
          /\ (lself = TestPoint /\ lk = 5 =>
                PointEq(lq, Point(49, 90, TestA24, TestModulus)))
          /\ (lself = TestPoint /\ lk = 9 =>
                PointEq(lq, Point(56, 99, TestA24, TestModulus)))
          /\ (lself = TestPoint /\ lk = 16 =>
                PointEq(lq, Point(5, 16, TestA24, TestModulus)))

SamePoint(p, q, m) == (p.x_cord * q.z_cord - q.x_cord * p.z_cord) % m = 0

\* Stage 2 is under way with a start b - 2d >= 1, so that every scalar of the
\* claim is a positive integer.
InStage2 == pc = "stage2" /\ b1 - 1 - 2 * ISqrt(b2) >= 1

\* C11, the table: s[i] = (2i) * Q for i = 1..d.
Stage2TableIsEvenMultiples ==
    InStage2 =>
        \A i \in 1..ISqrt(b2) : SamePoint(s[i], mont_ladder(Q, 2 * i), n)

\* C11, the running points: at the start of the window with offset rr, and
\* after the advance that ends the last window, r = rr * Q and
\* t = (rr - 2d) * Q.
Stage2RunningPoints ==
    InStage2 =>
        /\ SamePoint(r, mont_ladder(Q, rr), n)
        /\ SamePoint(t, mont_ladder(Q, rr - 2 * ISqrt(b2)), n)

\* C11, the advance: the call t.add(&s[d], &r) that ends the window (after
\* the swap, self is the old t and diff the old r) is given the difference
\* of its operands, (rr - 2d) * Q - (2d) * Q, up to sign.
Stage2AdvanceDiff ==
    (InStage2 /\ rr < b2 /\ rr # 4 * ISqrt(b2)) =>
        SamePoint(r, mont_ladder(Q, Abs(rr - 4 * ISqrt(b2))), n)

\* C11: in Stage 2 the table is s[i] = (2i) * Q, at the start of every window
\* r = rr * Q and t = (rr - 2d) * Q, and the add that advances r is given the
\* difference of its operands as diff.
C11_Stage2Advance ==
    /\ Stage2TableIsEvenMultiples
    /\ Stage2RunningPoints
    /\ Stage2AdvanceDiff

\* The set of the primes q with lo < q <= hi.
PrimesBetween(lo, hi) == {q \in (lo + 1)..hi : IsPrime(q)}

\* The elements of the sequence qs.
Elements(qs) == {qs[i] : i \in 1..Len(qs)}

\* A window of Stage 2 has been run: win holds its offset and its primes.
WindowRun == pc = "stage2" /\ win.primes # <<>>

\* C12, no prime skipped: every prime q with rr < q <= rr + 2d is used in
\* the window with offset rr.
Stage2NoPrimeSkipped ==
    WindowRun =>
        PrimesBetween(win.rr, win.rr + 2 * ISqrt(b2)) \subseteq Elements(win.primes)

\* C12, the index: every prime q used in the window with offset rr has
\* rr < q <= rr + 2d, so that delta = (q - rr) / 2 is in 1..d and beta[delta]
\* is s[delta].x * s[delta].z mod N of the current curve.
Stage2DeltaInRange ==
    WindowRun =>
        \A i \in 1..Len(win.primes) :
            LET delta == (win.primes[i] - win.rr) \div 2
            IN  /\ win.rr < win.primes[i]
                /\ win.primes[i] <= win.rr + 2 * ISqrt(b2)
                /\ 1 <= delta /\ delta <= ISqrt(b2)
                /\ beta[delta] = Rem(s[delta].x_cord * s[delta].z_cord, n)

\* C12: the primes multiplied into g in the window with offset rr are exactly
\* the primes q with rr < q <= rr + 2d, each once (the cursor carried from
\* window to window skips none and repeats none), and each has its index
\* delta = (q - rr) / 2 in 1..d.
C12_WindowPrimesExact ==
    /\ Stage2NoPrimeSkipped
    /\ Stage2DeltaInRange
    /\ WindowRun =>
          /\ Elements(win.primes) = PrimesBetween(win.rr, win.rr + 2 * ISqrt(b2))
          /\ Len(win.primes) = Cardinality(Elements(win.primes))

\* C13: every scalar given to mont_ladder by ecm_one_factor is >= 1: the
\* Stage 1 exponent k, and, once Stage 2 is entered (the bounds are even
\* then), b = b1 - 1 and b - 2d; the usize subtractions b1 - 1 and b - two_d
\* do not underflow, so the search does not panic on them.
C13_LadderScalarsPositive ==
    /\ pc \in {"curves", "suyama", "stage1", "stage2"} => k >= 1
    /\ pc = "stage2" =>
          /\ EvenBounds
          /\ b1 - 1 >= 1
          /\ b1 - 1 - 2 * ISqrt(b2) >= 1
    /\ N0 >= 2 => pc # "panic"

InRange(p, m) ==
    /\ 0 <= p.x_cord /\ p.x_cord < m
    /\ 0 <= p.z_cord /\ p.z_cord < m

Inherits(p, sg, m) == p.a_24 = SuyamaA24(sg, m) /\ p.modulus = m

InitialPointInRange ==
    pc = "stage1" => InRange(SuyamaPoint(sigma, n), n)

CurveInRange ==
    /\ InRange(SuyamaPoint(sigma, n), n)
    /\ 0 <= SuyamaA24(sigma, n) /\ SuyamaA24(sigma, n) < n

LadderPointsInRange ==
    /\ (pc \in {"stage1", "stage2"} /\ CurveInRange) =>
          InRange(Q, n) /\ Inherits(Q, sigma, n)
    /\ (InStage2 /\ CurveInRange) =>
          /\ InRange(t, n) /\ Inherits(t, sigma, n)
          /\ InRange(r, n) /\ Inherits(r, sigma, n)
          /\ \A i \in 1..ISqrt(b2) : InRange(s[i], n) /\ Inherits(s[i], sigma, n)

\* C14: every point of ecm_one_factor has 0 <= x < N and 0 <= z < N: the
\* initial point of the Suyama setup for every sigma drawn, and Q, t, r and
\* the table s that add and double produce from an initial point and an a24
\* in range, which also keep the a24 and the modulus of the curve.
C14_PointsInRange ==
    /\ InitialPointInRange
    /\ LadderPointsInRange

====
